---- MODULE Spec2Model ----
(***************************************************************************)
(* A model of the orchestration core of tiktoklive_monitor:                *)
(*   - StabilityTracker.track_stream_stability (monitor/stability_tracker) *)
(*   - StreamRecorder start/stop/force-stop, push-event handlers, the      *)
(*     disconnect confirmation task and the stale sweep                    *)
(*     (recording/stream_recorder, video_handler, csv_writer)              *)
(*   - GracefulShutdownHandler.graceful_shutdown (config/signal_handler)   *)
(*   - StreamChecker.check_streamer_status (monitor/stream_checker)        *)
(* Every coroutine is cut at its await points: one action runs the code    *)
(* from one suspension point to the next, as the asyncio event loop does.  *)
(***************************************************************************)
EXTENDS Integers, Sequences, FiniteSets, TLC

\* ------------------------------------------------------------------ bounds
NumUsers == 2          \* entities of the largest roster
MaxConcurrent == 1     \* settings.max_concurrent_recordings of the run
MaxSessions == 2       \* client objects alive at one time
MaxConf == 2           \* disconnect confirmation tasks alive at one time
MaxTime == 5           \* clock ticks of the tracker's runs
MaxRun == 3            \* longest run of equal samples fed to the tracker
MaxThreshold == 2      \* largest settings.stability_threshold tried
MaxCooldown == 2       \* largest short settings.min_action_cooldown tried (ticks)
LongCooldown == 11     \* a min_action_cooldown of more than ten minutes (ticks)
MaxChunks == 3         \* chunks of one inter-cycle sleep

\* ------------------------------------------------------- program constants
Backdate == 10         \* timedelta(minutes=10), stability_tracker.py:34
MaxRetries == 2        \* settings.max_retries, stream_checker.py:35
CleanupEvery == 50     \* check_count % 50, stream_monitor.py:184

Users == 1..NumUsers
Sessions == 1..MaxSessions
ConfTasks == 1..MaxConf
NoTime == 0 - 1000

VARIABLES
    \* ---- StabilityTracker
    now,            \* datetime.now(), in ticks
    cfgThreshold,   \* StabilityTracker.stability_threshold
    cfgCooldown,    \* StabilityTracker.min_action_cooldown
    stability,      \* StabilityTracker.stream_stability: user -> record
    obs,            \* the last track_stream_stability call and its result
    startGap,       \* history: ticks between the last two start decisions
    \* ---- StreamChecker (the monitor's instance)
    checker,        \* StreamChecker.clients and the poll in progress
    \* ---- StreamMonitor.monitor_streamers
    loop,           \* the monitoring loop's position and the stop file
    \* ---- StreamRecorder, CSVWriter, VideoHandler, shutdown
    rec,            \* the recorder's dictionaries and the objects they hold
    frames,         \* stop_recording / force_stop_recording calls in flight
    ctl,            \* monitor loop / sweep / shutdown position
    last,           \* the last call that returned, and what it returned
    \* ---- the run
    scope           \* what the run has: its roster and how much may happen

stabilityVars == <<now, cfgThreshold, cfgCooldown, stability, obs, startGap>>
trackerVars == <<now, cfgThreshold, cfgCooldown, stability, obs, startGap, checker,
                 loop>>
recorderVars == <<rec, frames, ctl, last>>
vars == <<now, cfgThreshold, cfgCooldown, stability, obs, startGap, checker, loop,
          rec, frames, ctl, last, scope>>

\* =================================================== StabilityTracker ====
\* stream_checker.py:205,207: the key '_all_failed' of a poll's result, and
\* the keys a poll's result can hold
AllFailedKey == NumUsers + 1
Keys == (1..NumUsers) \cup {AllFailedKey}

NoRecord == [present |-> FALSE, last_action_time |-> 0, consecutive_live |-> 0,
             consecutive_offline |-> 0, last_status |-> "None"]

\* stability_tracker.py:31-38: the record made on the first observation
NewRecord(t) == [present |-> TRUE, last_action_time |-> t - Backdate,
                 consecutive_live |-> 0, consecutive_offline |-> 0,
                 last_status |-> "None"]

\* a tracker that lets the other run's counter stand
UpdateCounters_keeping(r, is_live) ==
    IF is_live
    THEN [r EXCEPT !.consecutive_live =
                       IF r.last_status = "True" THEN r.consecutive_live + 1 ELSE 1,
                   !.last_status = "True"]
    ELSE [r EXCEPT !.consecutive_offline =
                       IF r.last_status = "False" THEN r.consecutive_offline + 1 ELSE 1,
                   !.last_status = "False"]

\* stability_tracker.py:52-66: the run-length counters and last_status
UpdateCounters(r, is_live) ==
    IF is_live
    THEN [r EXCEPT !.consecutive_offline = 0,
                   !.consecutive_live =
                       IF r.last_status = "True" THEN r.consecutive_live + 1 ELSE 1,
                   !.last_status = "True"]
    ELSE [r EXCEPT !.consecutive_live = 0,
                   !.consecutive_offline =
                       IF r.last_status = "False" THEN r.consecutive_offline + 1 ELSE 1,
                   !.last_status = "False"]

\* a tracker that wants more than the cooldown to have passed
ShouldAct_late(r, is_live, current_recording, t) ==
    /\ is_live
    /\ ~current_recording
    /\ r.consecutive_live >= cfgThreshold
    /\ t - r.last_action_time > cfgCooldown

\* a tracker that also decides on a stable offline run of a recorded entity
ShouldAct_polling(r, is_live, current_recording, t) ==
    \/ /\ is_live
       /\ ~current_recording
       /\ r.consecutive_live >= cfgThreshold
       /\ t - r.last_action_time >= cfgCooldown
    \/ /\ ~is_live
       /\ current_recording
       /\ r.consecutive_offline >= cfgThreshold

\* a tracker that decides only on the sample that completes the run
ShouldAct_edge(r, is_live, current_recording, t) ==
    /\ is_live
    /\ ~current_recording
    /\ r.consecutive_live = cfgThreshold
    /\ t - r.last_action_time >= cfgCooldown

\* stability_tracker.py:68-73: the decision
ShouldAct(r, is_live, current_recording, t) ==
    /\ is_live
    /\ ~current_recording
    /\ r.consecutive_live >= cfgThreshold
    /\ t - r.last_action_time >= cfgCooldown

\* a tracker that forgets to note when it decided
MarkAction_forgetting(r, act, t) == r

\* stability_tracker.py:74: a start decision moves last_action_time
MarkAction(r, act, t) == IF act THEN [r EXCEPT !.last_action_time = t] ELSE r

\* stability_tracker.py:26-88, one call.  recent_checks (lines 44-50) is
\* written and trimmed but never read by the decision; it is not carried.
track_stream_stability(u, is_live, current_recording) ==
    LET r0 == IF stability[u].present THEN stability[u] ELSE NewRecord(now)
        r1 == UpdateCounters(r0, is_live)
        act == ShouldAct(r1, is_live, current_recording, now)
        r2 == MarkAction(r1, act, now)
    IN  /\ IF is_live THEN r0.consecutive_live < MaxRun
                      ELSE r0.consecutive_offline < MaxRun
        /\ stability' = [stability EXCEPT ![u] = r2]
        /\ obs' = [user |-> u, is_live |-> is_live,
                   current_recording |-> current_recording, result |-> act,
                   prev_status |-> r0.last_status]
        /\ startGap' = IF act
                       THEN [startGap EXCEPT ![u] =
                               [last |-> now,
                                gap |-> IF startGap[u].last = NoTime
                                        THEN NoTime
                                        ELSE now - startGap[u].last]]
                       ELSE startGap
        /\ UNCHANGED <<now, cfgThreshold, cfgCooldown>>

Observe ==
    \E u \in scope.roster, is_live \in BOOLEAN, current_recording \in BOOLEAN :
        /\ track_stream_stability(u, is_live, current_recording)
        /\ UNCHANGED <<checker, loop, recorderVars, scope>>

\* the clock between two calls
Tick ==
    /\ now < MaxTime
    /\ now' = now + 1
    /\ UNCHANGED <<cfgThreshold, cfgCooldown, stability, obs, startGap>>
    /\ UNCHANGED <<checker, loop, recorderVars, scope>>

\* ===================================================== StreamRecorder ====
\* A frame is one stop_recording or force_stop_recording call in flight,
\* named by its caller: <<"LE", s>> the on_live_end handler of session s,
\* <<"CF", k>> confirmation task k, <<"SD", u>> the shutdown's stop task for
\* u, <<"SW", 0>> the sweep's force-stop, <<"SF", 0>> the shutdown's.
FrameIds == ({"LE"} \X Sessions) \cup ({"CF"} \X ConfTasks)
            \cup ({"SD"} \X Users) \cup {<<"SW", 0>>, <<"SF", 0>>}

Absent == [st |-> "absent", s |-> 0]
Reserved == [st |-> "reserved", s |-> 0]            \* active_recordings[u] = {}
Committed(s) == [st |-> "committed", s |-> s]       \* ... = recording_info of s

NoSession == [user |-> 0, start |-> "unused", is_recording |-> FALSE,
              client |-> "new", capture |-> FALSE,
              connect_seen |-> FALSE, live_end_seen |-> FALSE]
\* superseded: on_live_end has deleted the task's pending entry while the
\* task was still in its delay (history)
\* pend: a pending entry of the entity was there when the re-poll answered
NoTask == [user |-> 0, pc |-> "unused", must_cancel |-> FALSE,
           superseded |-> FALSE, pend |-> FALSE]
IdleFrame == [pc |-> "idle", user |-> 0, s |-> 0, cancel |-> FALSE]

\* stream_recorder.py:39-40, csv_writer.py:20, video_handler.py:26
InitRec == [active  |-> [u \in Users |-> Absent],
            pending |-> [u \in Users |-> 0],
            writers |-> [u \in Users |-> FALSE],
            video   |-> [u \in Users |-> 0],
            sess    |-> [s \in Sessions |-> NoSession],
            conf    |-> [k \in ConfTasks |-> NoTask]]

\* keys, cut, forced (history): the keys the shutdown created stop tasks for,
\* those whose stop task the 45 s timeout cancelled, those it force-stopped
\* shutdown_initiated, monitoring: GracefulShutdownHandler.shutdown_initiated
\* and StreamMonitor.monitoring; exited: os._exit has ended the process
InitCtl == [phase |-> "running", sweeping |-> FALSE, queue |-> <<>>,
            todo |-> {}, wait |-> {},
            keys |-> {}, cut |-> {}, forced |-> {},
            shutdown_initiated |-> FALSE, monitoring |-> TRUE, exited |-> FALSE]

\* what the step just taken returned to its caller
Quiet == [op |-> "none", user |-> 0, val |-> "none", why |-> "none",
          poll |-> "none", had |-> FALSE, pend |-> FALSE]

\* A machine state: the dictionaries, the frames and the outcome of the code
\* run so far ("run" while it has neither returned nor suspended).
Mk(R, F, out) == [rec |-> R, frames |-> F, out |-> out]

ActiveKeys(R) == {u \in Users : R.active[u].st # "absent"}
FreeSessions(R) == {s \in 1..scope.sessions : R.sess[s].start = "unused"}
FreeTasks(R) == {k \in 1..scope.conf : R.conf[k].pc = "unused"}
Suspended(f) == f.pc \in {"video", "disc", "sleep", "fvideo", "fdisc"}

\* A client object that nothing refers to any more: its connection is over
\* and neither a dictionary nor a call in flight holds it.  Its slot of the
\* model is free again.
Garbage(R, F, s) ==
    LET x == R.sess[s]
    IN  /\ x.start = "ok"
        /\ x.client \in {"dropped", "closed"}
        /\ R.active[x.user] # Committed(s)
        /\ R.video[x.user] # s
        /\ \A c \in FrameIds : F[c].pc = "idle" \/ F[c].s # s

Collect(R, F) ==
    [R EXCEPT !.sess = [s \in Sessions |->
                          IF Garbage(R, F, s) THEN NoSession ELSE R.sess[s]]]

\* the task running frame c has a cancellation waiting for its next await
MustCancel(M, c) == c[1] = "CF" /\ M.rec.conf[c[2]].must_cancel

Suspend(M, c, pc, u, s) ==
    Mk(M.rec,
       [M.frames EXCEPT ![c] = [pc |-> pc, user |-> u, s |-> s,
                                cancel |-> MustCancel(M, c)]],
       "suspended")

\* stream_recorder.py:134 (and 376, signal_handler.py:114): Task.cancel() of
\* confirmation task k.  A task waiting in its sleep or its re-poll ends at
\* once; a task inside stop_recording gets CancelledError at its await.
CancelTask(M, k) ==
    LET t == M.rec.conf[k]
        c == <<"CF", k>>
    IN  IF t.pc \in {"sleep", "poll"}
        THEN [M EXCEPT !.rec.conf[k] = NoTask]
        ELSE IF t.pc = "stop"
        THEN IF Suspended(M.frames[c])
             THEN [M EXCEPT !.frames[c].cancel = TRUE]
             ELSE [M EXCEPT !.rec.conf[k].must_cancel = TRUE]
        ELSE M

\* csv_writer.py:184-208
close_csv_writers(R, u) == [R EXCEPT !.writers[u] = FALSE]

\* stream_recorder.py:186-189: the finally block of stop_recording
StopFinally(R, u) == [R EXCEPT !.active[u] = Absent]

\* stream_recorder.py:168-189: close the sinks, return True; finally: delete
StopTail(M, c, u) ==
    Mk(StopFinally(close_csv_writers(M.rec, u), u),
       [M.frames EXCEPT ![c] = IdleFrame], "true")

\* stream_recorder.py:155-166: disconnect the client when it is connected
StopDisconnect(M, c, u, s) ==
    IF M.rec.sess[s].client = "up"
    THEN Suspend(M, c, "disc", u, s)
    ELSE StopTail(M, c, u)

\* a stop that cancels the confirmation and leaves its entry registered
CancelPending_keeping(M, u) ==
    LET k == M.rec.pending[u]
    IN  IF k = 0 THEN M ELSE CancelTask(M, k)

\* stream_recorder.py:131-138: cancel the entity's pending confirmation
CancelPending(M, u) ==
    LET k == M.rec.pending[u]
    IN  IF k = 0 THEN M
        ELSE [CancelTask(M, k) EXCEPT !.rec.pending[u] = 0]

\* video_handler.py:83-126 under graceful=True, up to the first sleep
StopVideo(M, c, u, s) ==
    LET v == M.rec.video[u]
    IN  IF v = 0 THEN StopDisconnect(M, c, u, s)
        ELSE IF M.rec.sess[v].capture
        THEN Suspend([M EXCEPT !.rec.sess[v].capture = FALSE], c, "video", u, s)
        ELSE StopDisconnect([M EXCEPT !.rec.video[u] = 0], c, u, s)

\* stream_recorder.py:125-151: stop_recording up to its first await
StopEntry(M, c, u) ==
    IF M.rec.active[u].st = "absent"
    THEN [M EXCEPT !.out = "false", !.frames[c] = IdleFrame]
    ELSE LET M1 == CancelPending(M, u)
         IN  IF M1.rec.active[u].st = "reserved"
             THEN [M1 EXCEPT !.out = "raise", !.frames[c] = IdleFrame]
             ELSE LET s == M1.rec.active[u].s
                  IN  StopVideo([M1 EXCEPT !.rec.sess[s].is_recording = FALSE],
                                c, u, s)

\* stream_recorder.py:186-189 reached by CancelledError at an await of
\* stop_recording (video_handler.py:113-116 first when inside the video stop)
StopCancel(M, c) ==
    LET f == M.frames[c]
        R1 == IF f.pc = "video" THEN [M.rec EXCEPT !.video[f.user] = 0] ELSE M.rec
    IN  Mk(StopFinally(R1, f.user),
           [M.frames EXCEPT ![c] = IdleFrame], "cancelled")

\* stream_recorder.py:214-220: return True; finally: delete
ForceTail(M, c, u) ==
    Mk([M.rec EXCEPT !.active[u] = Absent],
       [M.frames EXCEPT ![c] = IdleFrame], "true")

\* stream_recorder.py:203-212: close the sinks, disconnect the client; the
\* placeholder of a reserved slot (s = 0) has no client: KeyError, swallowed
ForceClose(M, c, u, s) ==
    LET M1 == [M EXCEPT !.rec = close_csv_writers(M.rec, u)]
    IN  IF s = 0 THEN ForceTail(M1, c, u)
        ELSE Suspend(M1, c, "fdisc", u, s)

\* stream_recorder.py:191-201 and video_handler.py:83-100,163-169
ForceEntry(M, c, u) ==
    IF M.rec.active[u].st = "absent"
    THEN [M EXCEPT !.out = "true", !.frames[c] = IdleFrame]
    ELSE LET s == M.rec.active[u].s
             M1 == IF s # 0 THEN [M EXCEPT !.rec.sess[s].is_recording = FALSE]
                   ELSE M
             v == M1.rec.video[u]
         IN  IF v = 0 THEN ForceClose(M1, c, u, s)
             ELSE IF M1.rec.sess[v].capture
             THEN Suspend([M1 EXCEPT !.rec.sess[v].capture = FALSE],
                          c, "fvideo", u, s)
             ELSE ForceClose([M1 EXCEPT !.rec.video[u] = 0], c, u, s)

\* CancelledError inside force_stop_recording: in the video stop it passes
\* `except Exception` (finally deletes); in client.disconnect() the bare
\* `except:` of line 211 swallows it and the call returns True
ForceCancel(M, c) ==
    LET f == M.frames[c]
        R1 == IF f.pc = "fvideo" THEN [M.rec EXCEPT !.video[f.user] = 0] ELSE M.rec
    IN  Mk([R1 EXCEPT !.active[f.user] = Absent],
           [M.frames EXCEPT ![c] = IdleFrame],
           IF f.pc = "fvideo" THEN "cancelled" ELSE "true")

\* a confirmation that ends after its stop without the clean-up of its entry
ConfAfterStop_leaving(M, k) ==
    IF M.out \in {"true", "false", "cancelled", "raise"}
    THEN [M EXCEPT !.rec.conf[k] = NoTask]
    ELSE M

\* stream_recorder.py:357-364: what confirmation task k does when its
\* stop_recording call returns, raises or is cancelled; the task is over
ConfAfterStop(M, k) ==
    LET u == M.rec.conf[k].user
    IN  IF M.out \in {"true", "false"}
        THEN [M EXCEPT !.rec.pending[u] = 0, !.rec.conf[k] = NoTask]
        ELSE IF M.out \in {"cancelled", "raise"}
        THEN [M EXCEPT !.rec.conf[k] = NoTask]
        ELSE M

\* stream_recorder.py:476-478: the sweep force-stops the stale users one
\* after the other; q is what is left of its list.  No other code runs
\* between two of the calls unless the first one suspends, so the run goes
\* on until a force_stop_recording suspends or the list is empty.
RECURSIVE SweepRun(_, _)
SweepRun(M, q) ==
    IF q = <<>> THEN [m |-> M, q |-> q]
    ELSE LET M1 == ForceEntry([M EXCEPT !.out = "run"], <<"SW", 0>>, Head(q))
         IN  IF M1.out = "suspended" THEN [m |-> M1, q |-> Tail(q)]
             ELSE SweepRun(M1, Tail(q))

\* the caller of frame c resumes
AfterReturn(M, c) ==
    IF c[1] = "CF" THEN ConfAfterStop(M, c[2])
    ELSE IF c[1] = "SW" /\ M.out # "suspended" THEN SweepRun(M, ctl.queue).m
    ELSE M

\* the sweep and the shutdown as their frame returns (stream_recorder.py:
\* 476-478, signal_handler.py:134-141)
CtlAfter(C, M, c) ==
    IF M.out = "suspended" THEN C
    ELSE IF c[1] = "SD" THEN [C EXCEPT !.wait = @ \ {c[2]}]
    ELSE IF c[1] = "SW"
    THEN LET R == SweepRun(M, C.queue)
         IN  [C EXCEPT !.sweeping = (R.m.out = "suspended"), !.queue = R.q]
    ELSE C

\* the reason argument each caller passes
Reason(c) ==
    IF c[1] = "LE" THEN "live_end_event"
    ELSE IF c[1] = "CF" THEN "disconnect_confirmed"
    ELSE IF c[1] = "SD" THEN "graceful_shutdown"
    ELSE IF c[1] = "SW" THEN "stale" ELSE "forced_shutdown"

Returned(op, u, M, c, had) ==
    IF M.out = "suspended" THEN Quiet
    ELSE [op |-> op, user |-> u, val |-> M.out, why |-> Reason(c),
          poll |-> "none", had |-> had,
          pend |-> IF c[1] = "CF" THEN rec.conf[c[2]].pend ELSE FALSE]

\* the variables after frame c ran to M
Commit(M, c, C, l) ==
    LET M1 == AfterReturn(M, c)
    IN  /\ rec' = Collect(M1.rec, M1.frames)
        /\ frames' = M1.frames
        /\ ctl' = CtlAfter(C, M, c)
        /\ last' = l
        /\ UNCHANGED <<trackerVars, scope>>

Here == Mk(rec, frames, "run")

\* the process runs: os._exit (signal_handler.py:55) has not been called
Alive == ~ctl.exited
Lowest(S) == CHOOSE x \in S : \A y \in S : x <= y

\* ------------------------------------------------------ start_recording --
\* a rollback that gives the slot back and leaves the sinks open
StartRollback_leaving(R, u) == [R EXCEPT !.active[u] = Absent]

\* stream_recorder.py:106-123: the rollback of a failed start
StartRollback(R, u) ==
    close_csv_writers([R EXCEPT !.active[u] = Absent], u)

\* a capacity check that lets one recording too many through
AtCapacity_lax(R) == Cardinality(ActiveKeys(R)) > MaxConcurrent

\* stream_recorder.py:48-55: the capacity check
AtCapacity(R) == Cardinality(ActiveKeys(R)) >= MaxConcurrent

StartReturn(u, val, why, had) ==
    [op |-> "start", user |-> u, val |-> val, why |-> why, poll |-> "none",
     had |-> had, pend |-> FALSE]

\* stream_recorder.py:42-97: start_recording up to `await client.start()`.
\* csv_ok: whether open() of the six CSV files succeeds (csv_writer.py:55-82).
StartCall(u, csv_ok) ==
    /\ Alive
    /\ ctl.phase = "running"
    /\ u \in scope.roster
    /\ FreeSessions(rec) # {}
    /\ UNCHANGED <<frames, ctl>> /\ UNCHANGED <<trackerVars, scope>>
    /\ LET had == rec.active[u].st # "absent"
           s == Lowest(FreeSessions(rec))
       IN  IF had
           THEN /\ rec' = rec
                /\ last' = StartReturn(u, "false", "already_active", had)
           ELSE IF AtCapacity(rec)
           THEN /\ rec' = rec
                /\ last' = StartReturn(u, "false", "capacity_exceeded", had)
           ELSE IF rec.writers[u] \/ ~csv_ok
           THEN /\ rec' = StartRollback([rec EXCEPT !.active[u] = Reserved], u)
                /\ last' = StartReturn(u, "false", "csv", had)
           ELSE /\ rec' = [rec EXCEPT !.active[u] = Reserved,
                                      !.writers[u] = TRUE,
                                      !.sess[s] = [NoSession EXCEPT
                                                     !.user = u,
                                                     !.start = "connecting",
                                                     !.is_recording = TRUE]]
                /\ last' = StartReturn(u, "suspended", "connecting", had)

\* stream_recorder.py:97-104: client.start() returned; commit the session
StartCommit(s) ==
    /\ Alive
    /\ rec.sess[s].start = "connecting"
    /\ LET u == rec.sess[s].user
       IN  /\ rec' = [rec EXCEPT !.active[u] = Committed(s),
                                 !.sess[s].start = "ok",
                                 !.sess[s].client = "up"]
           /\ last' = StartReturn(u, "true", "committed", rec.active[u].st # "absent")
    /\ UNCHANGED <<frames, ctl>> /\ UNCHANGED <<trackerVars, scope>>

\* stream_recorder.py:97,106-123: client.start() raised
StartFail(s) ==
    /\ Alive
    /\ rec.sess[s].start = "connecting"
    /\ LET u == rec.sess[s].user
       IN  /\ rec' = [StartRollback(rec, u) EXCEPT !.sess[s] = NoSession]
           /\ last' = StartReturn(u, "false", "connect", rec.active[u].st # "absent")
    /\ UNCHANGED <<frames, ctl>> /\ UNCHANGED <<trackerVars, scope>>

\* ------------------------------------------------------- event handlers --
\* stream_recorder.py:241-250, video_handler.py:49-81
OnConnect(s, video_ok) ==
    /\ Alive
    /\ scope.events
    /\ rec.sess[s].start = "ok" /\ rec.sess[s].client = "up"
    /\ ~rec.sess[s].connect_seen
    /\ LET u == rec.sess[s].user
       IN  rec' = IF video_ok
                  THEN [rec EXCEPT !.sess[s].connect_seen = TRUE,
                                   !.sess[s].capture = TRUE,
                                   !.video[u] = s]
                  ELSE [rec EXCEPT !.sess[s].connect_seen = TRUE]
    /\ last' = Quiet
    /\ UNCHANGED <<frames, ctl>> /\ UNCHANGED <<trackerVars, scope>>

\* stream_recorder.py:276-334, csv_writer.py:156-182: what a comment, gift,
\* follow, share, join or like handler of session s does with an event:
\* nothing when its recording_info says is_recording False; else it writes
\* a row when the entity has open sinks ("row") and adds one to its counter
\* whether or not a row was written ("counted" when none was)
on_event(R, s) ==
    IF ~R.sess[s].is_recording THEN "ignored"
    ELSE IF R.writers[R.sess[s].user] THEN "row"
    ELSE "counted"

\* stream_recorder.py:276-334: the client of session s delivers an event
OnEvent(s) ==
    /\ Alive
    /\ scope.events
    /\ rec.sess[s].start = "ok" /\ rec.sess[s].client = "up"
    /\ last' = [op |-> "event", user |-> rec.sess[s].user,
                val |-> on_event(rec, s), why |-> "none", poll |-> "none",
                had |-> rec.sess[s].is_recording, pend |-> FALSE]
    /\ UNCHANGED <<rec, frames, ctl>> /\ UNCHANGED <<trackerVars, scope>>

\* stream_recorder.py:252-260
OnLiveEnd(s) ==
    /\ Alive
    /\ scope.events
    /\ rec.sess[s].start = "ok" /\ rec.sess[s].client \in {"up", "dropped"}
    /\ ~rec.sess[s].live_end_seen
    /\ LET u == rec.sess[s].user
           c == <<"LE", s>>
           k == rec.pending[u]
           M00 == IF k # 0 /\ rec.conf[k].pc = "sleep"
                  THEN [Here EXCEPT !.rec.conf[k].superseded = TRUE]
                  ELSE Here
           M0 == [M00 EXCEPT !.rec.sess[s].live_end_seen = TRUE,
                             !.rec.pending[u] = 0]
           M == StopEntry(M0, c, u)
       IN  Commit(M, c, ctl, Returned("stop", u, M, c, rec.active[u].st # "absent"))

\* a handler that schedules a confirmation on every disconnect event
OnDisconnect_again(s) ==
    /\ Alive
    /\ scope.events
    /\ rec.sess[s].start = "ok" /\ rec.sess[s].client = "up"
    /\ LET u == rec.sess[s].user
       IN  IF TRUE
           THEN /\ FreeTasks(rec) # {}
                /\ LET k == Lowest(FreeTasks(rec))
                   IN  rec' = Collect([rec EXCEPT
                                         !.sess[s].client = "dropped",
                                         !.pending[u] = k,
                                         !.conf[k] = [NoTask EXCEPT !.user = u,
                                                                    !.pc = "sleep"]],
                                      frames)
           ELSE rec' = Collect([rec EXCEPT !.sess[s].client = "dropped"], frames)
    /\ last' = [Quiet EXCEPT !.op = "disconnect", !.user = rec.sess[s].user,
                             !.pend = rec.pending[rec.sess[s].user] # 0]
    /\ UNCHANGED <<frames, ctl>> /\ UNCHANGED <<trackerVars, scope>>

\* stream_recorder.py:262-274
OnDisconnect(s) ==
    /\ Alive
    /\ scope.events
    /\ rec.sess[s].start = "ok" /\ rec.sess[s].client = "up"
    /\ LET u == rec.sess[s].user
       IN  IF rec.pending[u] = 0
           THEN /\ FreeTasks(rec) # {}
                /\ LET k == Lowest(FreeTasks(rec))
                   IN  rec' = Collect([rec EXCEPT
                                         !.sess[s].client = "dropped",
                                         !.pending[u] = k,
                                         !.conf[k] = [NoTask EXCEPT !.user = u,
                                                                    !.pc = "sleep"]],
                                      frames)
           ELSE rec' = Collect([rec EXCEPT !.sess[s].client = "dropped"], frames)
    /\ last' = [Quiet EXCEPT !.op = "disconnect", !.user = rec.sess[s].user,
                             !.pend = rec.pending[rec.sess[s].user] # 0]
    /\ UNCHANGED <<frames, ctl>> /\ UNCHANGED <<trackerVars, scope>>

\* ------------------------------------------- stop_recording, resumed -----
\* video_handler.py:126-161,102-116: the video stop ends; back in
\* stop_recording at line 152
StopVideoDone(c) ==
    /\ Alive
    /\ frames[c].pc = "video" /\ ~frames[c].cancel
    /\ LET f == frames[c]
           M == StopDisconnect([Here EXCEPT !.rec.video[f.user] = 0], c, f.user, f.s)
       IN  Commit(M, c, ctl, Returned("stop", f.user, M, c, TRUE))

\* stream_recorder.py:159-166: client.disconnect() ends or times out
StopDisconnectDone(c, ok) ==
    /\ Alive
    /\ frames[c].pc = "disc" /\ ~frames[c].cancel
    /\ LET f == frames[c]
       IN  /\ rec' = IF ok THEN [rec EXCEPT !.sess[f.s].client = "closed"] ELSE rec
           /\ frames' = [frames EXCEPT ![c].pc = "sleep"]
    /\ last' = Quiet
    /\ UNCHANGED ctl /\ UNCHANGED <<trackerVars, scope>>

\* stream_recorder.py:166-189: the settle sleep ends
StopSleepDone(c) ==
    /\ Alive
    /\ frames[c].pc = "sleep" /\ ~frames[c].cancel
    /\ LET f == frames[c]
           M == StopTail(Here, c, f.user)
       IN  Commit(M, c, ctl, Returned("stop", f.user, M, c, TRUE))

\* CancelledError delivered to a suspended stop_recording
StopCancelled(c) ==
    /\ Alive
    /\ frames[c].pc \in {"video", "disc", "sleep"} /\ frames[c].cancel
    /\ LET f == frames[c]
           M == StopCancel(Here, c)
       IN  Commit(M, c, ctl, Returned("stop", f.user, M, c, TRUE))

\* -------------------------------------------------- check_streamer_status --
\* what one attempt can do: answer, run out of time (TimeoutError,
\* ReadTimeout, ConnectTimeout) or raise anything else
AttemptOutcomes == {"live", "offline", "timeout", "error"}
Attempts == 1..(MaxRetries + 1)

\* stream_checker.py:33-134: the attempts in order; the first one that
\* answers decides, a failed one is retried while attempts are left, and
\* the last failure returns False
RECURSIVE CheckFrom(_, _)
CheckFrom(outs, attempt) ==
    IF attempt > MaxRetries + 1 THEN FALSE
    ELSE IF outs[attempt] \in {"live", "offline"} THEN outs[attempt] = "live"
    ELSE IF attempt < MaxRetries + 1 THEN CheckFrom(outs, attempt + 1)
    ELSE FALSE

AllFailed(outs) == \A i \in Attempts : outs[i] \notin {"live", "offline"}

\* a checker that reports an entity it could not reach as live
check_streamer_status_hopeful(outs) == AllFailed(outs) \/ CheckFrom(outs, 1)

check_streamer_status(outs) == CheckFrom(outs, 1)

\* ------------------------------------------ check_all_streamers_parallel --
\* One poll of the monitor's StreamChecker, cut at its awaits.
\*   clients: StreamChecker.clients, per entity "none" (no entry), "ok"
\*            (entry, failed = False) or "failed" (entry, failed = True)
\*   task:    the check_single_streamer_with_timeout task of each entity
\*   how:     how each task ended (history)
\*   tried:   what the entity's latest attempt did (history)
\*   status, flag: live_status[username] and live_status['_all_failed']
\*   seen, acted: the keys the monitor passed to the tracker, and those it
\*            created a start_recording task for, after the poll (history)
NoCheck == [pc |-> "idle", attempt |-> 0]
InitChecker == [phase   |-> "idle",
                roster  |-> {},
                clients |-> [u \in Users |-> "none"],
                task    |-> [u \in Users |-> NoCheck],
                how     |-> [u \in Users |-> "none"],
                tried   |-> [u \in Users |-> "none"],
                status  |-> [u \in Users |-> FALSE],
                flag    |-> FALSE,
                seen    |-> {},
                acted   |-> {}]

\* stream_checker.py:47-52: the entity's entry is made when it has none
EnsureClient(cl, u) == IF cl[u] = "none" THEN [cl EXCEPT ![u] = "ok"] ELSE cl

\* stream_checker.py:158-179 (stream_monitor.py:133): a poll of the enabled
\* streamers begins, one task per entity (the roster fits one batch)
PollBegin(roster) ==
    /\ checker.phase = "idle"
    /\ roster # {}
    /\ checker' = [checker EXCEPT
                      !.phase = "polling", !.roster = roster,
                      !.task = [u \in Users |->
                                  IF u \in roster THEN [pc |-> "attempt", attempt |-> 1]
                                  ELSE NoCheck],
                      !.how = [u \in Users |-> "none"],
                      !.tried = [u \in Users |-> "none"],
                      !.status = [u \in Users |-> FALSE],
                      !.flag = FALSE, !.seen = {}, !.acted = {}]
    /\ UNCHANGED <<stabilityVars, loop, recorderVars, scope>>

\* a checker that takes an entity it could not reach for a live one
CheckAttempt_hopeful(u, outcome) ==
    /\ checker.phase = "polling" /\ checker.task[u].pc = "attempt"
    /\ LET n == checker.task[u].attempt
           cl == EnsureClient(checker.clients, u)
       IN  checker' =
             IF outcome \in {"live", "offline"}
             THEN [checker EXCEPT !.clients = [cl EXCEPT ![u] = "ok"],
                                  !.task[u] = [pc |-> "done", attempt |-> n],
                                  !.how[u] = outcome, !.tried[u] = outcome]
             ELSE IF n < MaxRetries + 1
             THEN [checker EXCEPT !.clients = cl, !.task[u].attempt = n + 1,
                                  !.tried[u] = outcome]
             ELSE [checker EXCEPT !.clients = [cl EXCEPT ![u] = "failed"],
                                  !.task[u] = [pc |-> "done", attempt |-> n],
                                  !.how[u] = "live", !.tried[u] = outcome]
    /\ UNCHANGED <<stabilityVars, loop, recorderVars, scope>>

\* stream_checker.py:38-132: one attempt of check_streamer_status ends
CheckAttempt(u, outcome) ==
    /\ checker.phase = "polling" /\ checker.task[u].pc = "attempt"
    /\ LET n == checker.task[u].attempt
           cl == EnsureClient(checker.clients, u)
       IN  checker' =
             IF outcome \in {"live", "offline"}
             THEN [checker EXCEPT !.clients = [cl EXCEPT ![u] = "ok"],
                                  !.task[u] = [pc |-> "done", attempt |-> n],
                                  !.how[u] = outcome, !.tried[u] = outcome]
             ELSE IF n < MaxRetries + 1
             THEN [checker EXCEPT !.clients = cl, !.task[u].attempt = n + 1,
                                  !.tried[u] = outcome]
             ELSE [checker EXCEPT !.clients = [cl EXCEPT ![u] = "failed"],
                                  !.task[u] = [pc |-> "done", attempt |-> n],
                                  !.how[u] = "failed", !.tried[u] = outcome]
    /\ UNCHANGED <<stabilityVars, loop, recorderVars, scope>>

\* stream_checker.py:144-151: the task's own timeout (individual timeout
\* plus 5 s) cuts check_streamer_status off in the middle of an attempt
CheckTimeout(u) ==
    /\ checker.phase = "polling" /\ checker.task[u].pc = "attempt"
    /\ checker' = [checker EXCEPT
                      !.clients = EnsureClient(checker.clients, u),
                      !.task[u].pc = "done",
                      !.how[u] = "timeout"]
    /\ UNCHANGED <<stabilityVars, loop, recorderVars, scope>>

\* stream_checker.py:182-189: an entity reported not live loses its entry
DropOffline(cl, roster, how) ==
    [u \in Users |-> IF u \in roster /\ how[u] # "live" THEN "none" ELSE cl[u]]

\* stream_checker.py:203-207: the aggregate flag
AllFailedFlag(cl) ==
    /\ \E u \in Users : cl[u] # "none"
    /\ ~\E u \in Users : cl[u] = "ok"

\* stream_checker.py:179-209: the gather ends; the results are processed
PollEnd ==
    /\ checker.phase = "polling"
    /\ \A u \in checker.roster : checker.task[u].pc = "done"
    /\ LET cl == DropOffline(checker.clients, checker.roster, checker.how)
       IN  checker' = [checker EXCEPT
                         !.phase = "done",
                         !.clients = cl,
                         !.task = [u \in Users |-> NoCheck],
                         !.status = [u \in Users |-> checker.how[u] = "live"],
                         !.flag = AllFailedFlag(cl)]
    /\ UNCHANGED <<stabilityVars, loop, recorderVars, scope>>

\* stream_checker.py:160-209: the dictionary a poll returns
live_status(C) ==
    [k \in C.roster \cup {AllFailedKey} |->
        IF k = AllFailedKey THEN C.flag ELSE C.status[k]]

\* stream_monitor.py:137: the keys the monitor iterates over
poll_keys(C) == DOMAIN live_status(C)

\* stream_recorder.py:452-453
is_recording(R, key) == key \in Users /\ R.active[key].st # "absent"

\* stream_monitor.py:137-147: the monitor goes through the keys left to do
\* of a poll's result: one track_stream_stability call each, and a
\* start_recording task when the call says so
RECURSIVE ProcessKeys(_, _, _, _)
ProcessKeys(S, acted, todo, ls) ==
    IF todo = {} THEN [stability |-> S, acted |-> acted]
    ELSE LET key == Lowest(todo)
             cur == is_recording(rec, key)
             r0 == IF S[key].present THEN S[key] ELSE NewRecord(now)
             r1 == UpdateCounters(r0, ls[key])
             act == ShouldAct(r1, ls[key], cur, now)
         IN  ProcessKeys([S EXCEPT ![key] = MarkAction(r1, act, now)],
                         IF act /\ ls[key] /\ ~cur THEN acted \cup {key} ELSE acted,
                         todo \ {key}, ls)

\* stream_monitor.py:133-147: back in the monitor, the result is processed
ProcessResults ==
    /\ checker.phase = "done"
    /\ \A key \in poll_keys(checker) :
          /\ stability[key].consecutive_live < MaxRun
          /\ stability[key].consecutive_offline < MaxRun
    /\ LET P == ProcessKeys(stability, {}, poll_keys(checker), live_status(checker))
       IN  /\ stability' = P.stability
           /\ checker' = [checker EXCEPT !.phase = "idle",
                                         !.seen = poll_keys(checker),
                                         !.acted = P.acted]
    /\ UNCHANGED <<now, cfgThreshold, cfgCooldown, obs, startGap>>
    /\ UNCHANGED <<loop, recorderVars, scope>>

\* ------------------------------------------ _handle_disconnect_confirmation
\* stream_recorder.py:342-345,362-364: the delay ends
ConfWake(k) ==
    /\ Alive
    /\ rec.conf[k].pc = "sleep"
    /\ LET u == rec.conf[k].user
       IN  rec' = IF rec.pending[u] # 0 /\ rec.active[u].st # "absent"
                  THEN [rec EXCEPT !.conf[k].pc = "poll"]
                  ELSE [rec EXCEPT !.conf[k] = NoTask, !.pending[u] = 0]
    /\ last' = Quiet
    /\ UNCHANGED <<frames, ctl>> /\ UNCHANGED <<trackerVars, scope>>

\* a confirmation that leaves the pending entry behind
ConfLive_leaving(R, k) == [R EXCEPT !.conf[k] = NoTask]

\* stream_recorder.py:355-356,362-364: the entity is live again; the
\* recording goes on and the pending entry is deleted
ConfLive(R, k) == [R EXCEPT !.conf[k] = NoTask, !.pending[R.conf[k].user] = 0]

\* stream_recorder.py:350-364: the re-poll answers
ConfPoll(k, outs) ==
    /\ Alive
    /\ rec.conf[k].pc = "poll"
    /\ LET u == rec.conf[k].user
           c == <<"CF", k>>
           how == IF AllFailed(outs) THEN "failed"
                  ELSE IF check_streamer_status(outs) THEN "live"
                  ELSE "offline"
           had == rec.active[u].st # "absent"
           pend == rec.pending[u] # 0
       IN  IF check_streamer_status(outs)
           THEN /\ rec' = ConfLive(rec, k)
                /\ last' = [op |-> "confirm", user |-> u, val |-> "none",
                            why |-> "none", poll |-> how, had |-> had,
                            pend |-> pend]
                /\ UNCHANGED <<frames, ctl>> /\ UNCHANGED <<trackerVars, scope>>
           ELSE LET M0 == [Here EXCEPT !.rec.conf[k].pc = "stop",
                                       !.rec.conf[k].pend = pend]
                    M1 == StopEntry(M0, c, u)
                    M2 == IF M1.out = "raise"
                          THEN StopEntry([M1 EXCEPT !.out = "run"], c, u)
                          ELSE M1
                IN  Commit(M2, c, ctl,
                           [op |-> "confirm", user |-> u, val |-> M2.out,
                            why |-> IF M1.out = "raise" THEN "disconnect_error"
                                    ELSE "disconnect_confirmed",
                            poll |-> how, had |-> had, pend |-> pend])

\* --------------------------------------------- cleanup_stale_recordings ---
\* stream_recorder.py:461-473
StaleUsers(R) ==
    {u \in Users :
        \/ R.active[u].st = "reserved"
        \/ /\ R.active[u].st = "committed"
           /\ R.sess[R.active[u].s].client # "up"
           /\ ~R.sess[R.active[u].s].is_recording}

\* the orders in which a dictionary holding the keys S can list them (the
\* order is that of the insertions, which the model does not keep)
Orders(S) ==
    {q \in [1..Cardinality(S) -> S] :
        \A i, j \in 1..Cardinality(S) : i # j => q[i] # q[j]}

\* stream_monitor.py:183-185,242-249 and stream_recorder.py:459-478: the
\* periodic sweep lists the stale users and force-stops them, up to the
\* first force_stop_recording that suspends
SweepBegin(q) ==
    /\ Alive
    /\ scope.sweep
    /\ ctl.phase = "running" /\ ~ctl.sweeping
    /\ StaleUsers(rec) # {}
    /\ q \in Orders(StaleUsers(rec))
    /\ LET R == SweepRun(Here, q)
       IN  /\ rec' = Collect(R.m.rec, R.m.frames)
           /\ frames' = R.m.frames
           /\ ctl' = [ctl EXCEPT !.sweeping = (R.m.out = "suspended"),
                                 !.queue = R.q]
           /\ last' = IF R.m.out = "suspended" THEN Quiet
                      ELSE [op |-> "force", user |-> q[Len(q)], val |-> R.m.out,
                            why |-> "stale", poll |-> "none", had |-> TRUE,
                            pend |-> FALSE]
    /\ UNCHANGED <<trackerVars, scope>>

\* video_handler.py:169-181,102-116: the forced video stop ends
ForceVideoDone(c) ==
    /\ Alive
    /\ frames[c].pc = "fvideo" /\ ~frames[c].cancel
    /\ LET f == frames[c]
           M == ForceClose([Here EXCEPT !.rec.video[f.user] = 0], c, f.user, f.s)
       IN  Commit(M, c, ctl, Returned("force", f.user, M, c, TRUE))

\* stream_recorder.py:206-220: client.disconnect() ends, fails or times out
ForceDisconnectDone(c, ok) ==
    /\ Alive
    /\ frames[c].pc = "fdisc" /\ ~frames[c].cancel
    /\ LET f == frames[c]
           M0 == IF ok THEN [Here EXCEPT !.rec.sess[f.s].client = "closed"] ELSE Here
           M == ForceTail(M0, c, f.user)
       IN  Commit(M, c, ctl, Returned("force", f.user, M, c, TRUE))

\* ------------------------------------------------------ graceful_shutdown --
RECURSIVE CancelAll(_, _)
CancelAll(M, K) ==
    IF K = {} THEN M
    ELSE LET k == Lowest(K) IN CancelAll(CancelTask(M, k), K \ {k})

\* signal_handler.py:110-118: cancel every registered confirmation task,
\* then clear the dictionary.  (stream_recorder.py:373-380 is the same code
\* in stop_all_recordings, which nothing calls.)
CancelAllPending(M) ==
    LET K == {M.rec.pending[u] : u \in Users} \ {0}
    IN  [CancelAll(M, K) EXCEPT !.rec.pending = [u \in Users |-> 0]]

\* signal_handler.py:106-131 (stream_monitor.py:268-273 calls it when the
\* loop has ended): cancel the confirmations, create one stop task per key
ShutdownBegin ==
    /\ Alive
    /\ scope.shutdown
    /\ ctl.phase = "running" /\ ~ctl.sweeping
    /\ LET M == CancelAllPending(Here)
           keys == ActiveKeys(rec)
       IN  /\ rec' = M.rec
           /\ frames' = [c \in FrameIds |->
                           IF c[1] = "SD" /\ c[2] \in keys
                           THEN [pc |-> "created", user |-> c[2], s |-> 0,
                                 cancel |-> FALSE]
                           ELSE M.frames[c]]
           /\ ctl' = [ctl EXCEPT !.phase = IF keys = {} THEN "done" ELSE "draining",
                                 !.wait = keys, !.keys = keys]
    /\ last' = Quiet
    /\ UNCHANGED <<trackerVars, scope>>

\* signal_handler.py:128-130: a created stop task runs to its first await
ShutdownStopTask(u) ==
    /\ Alive
    /\ frames[<<"SD", u>>].pc = "created"
    /\ LET c == <<"SD", u>>
           M == StopEntry(Here, c, u)
       IN  Commit(M, c, ctl, Returned("stop", u, M, c, rec.active[u].st # "absent"))

\* a shutdown that force-stops what is left whether or not the wait timed out
GatherReturned_forcing(C, R) ==
    [C EXCEPT !.phase = "forcing", !.todo = ActiveKeys(R)]

\* signal_handler.py:137-141,157: wait_for returns; no except branch runs
GatherReturned(C, R) == [C EXCEPT !.phase = "done"]

\* signal_handler.py:137-141: the gather ends within the timeout
ShutdownGathered ==
    /\ Alive
    /\ ctl.phase = "draining" /\ ctl.wait = {}
    /\ ctl' = GatherReturned(ctl, rec)
    /\ last' = Quiet
    /\ UNCHANGED <<rec, frames>> /\ UNCHANGED <<trackerVars, scope>>

\* signal_handler.py:137-142: the 45 s run out; wait_for cancels the gather,
\* which cancels every stop task that has not ended
ShutdownTimeout ==
    /\ Alive
    /\ ctl.phase = "draining" /\ ctl.wait # {}
    /\ \A u \in ctl.wait : Suspended(frames[<<"SD", u>>])
    /\ frames' = [c \in FrameIds |->
                    IF c[1] = "SD" /\ c[2] \in ctl.wait
                    THEN [frames[c] EXCEPT !.cancel = TRUE] ELSE frames[c]]
    /\ ctl' = [ctl EXCEPT !.phase = "cancelling", !.cut = ctl.wait]
    /\ last' = Quiet
    /\ UNCHANGED rec /\ UNCHANGED <<trackerVars, scope>>

\* signal_handler.py:142-145: TimeoutError is raised once the cancelled
\* tasks have ended; the keys left are listed for the force-stop
ShutdownForceBegin ==
    /\ Alive
    /\ ctl.phase = "cancelling" /\ ctl.wait = {}
    /\ ctl' = [ctl EXCEPT !.phase = "forcing", !.todo = ActiveKeys(rec)]
    /\ last' = Quiet
    /\ UNCHANGED <<rec, frames>> /\ UNCHANGED <<trackerVars, scope>>

\* signal_handler.py:145-153: force-stop the next key
ShutdownForce(u) ==
    /\ Alive
    /\ ctl.phase = "forcing" /\ u \in ctl.todo /\ frames[<<"SF", 0>>].pc = "idle"
    /\ LET c == <<"SF", 0>>
           M == ForceEntry(Here, c, u)
       IN  Commit(M, c, [ctl EXCEPT !.todo = @ \ {u}, !.forced = @ \cup {u}],
                  Returned("force", u, M, c, rec.active[u].st # "absent"))

\* signal_handler.py:148-153: the 5 s of one force-stop run out
ShutdownForceTimeout ==
    /\ Alive
    /\ Suspended(frames[<<"SF", 0>>])
    /\ LET c == <<"SF", 0>>
           f == frames[c]
           M == ForceCancel(Here, c)
       IN  Commit(M, c, ctl, Returned("force", f.user, M, c, TRUE))

\* signal_handler.py:157-163
ShutdownFinish ==
    /\ Alive
    /\ ctl.phase = "forcing" /\ ctl.todo = {} /\ frames[<<"SF", 0>>].pc = "idle"
    /\ ctl' = [ctl EXCEPT !.phase = "done"]
    /\ last' = Quiet
    /\ UNCHANGED <<rec, frames>> /\ UNCHANGED <<trackerVars, scope>>

\* --------------------------------------------------------- signal_handler --
\* a handler that leaves the process at the first signal
signal_handler_abrupt(C) == [C EXCEPT !.exited = TRUE]

\* signal_handler.py:51-70.  The stop file it writes is read by the monitor
\* loop, which then ends as it does when monitoring is False.
signal_handler(C) ==
    IF C.shutdown_initiated
    THEN [C EXCEPT !.exited = TRUE]
    ELSE [C EXCEPT !.shutdown_initiated = TRUE, !.monitoring = FALSE]

\* signal_handler.py:33-47: SIGINT, SIGTERM or SIGHUP is delivered
Signal ==
    /\ Alive
    /\ scope.signals
    /\ ctl' = signal_handler(ctl)
    /\ last' = [Quiet EXCEPT !.op = "signal"]
    /\ UNCHANGED <<rec, frames>> /\ UNCHANGED <<trackerVars, scope>>

\* ------------------------------------------------------ monitor_streamers --
\* The monitoring loop, cut at its awaits.
\*   pc:    "top" (about to evaluate `while self.monitoring`), "poll" (in
\*          check_all_streamers_parallel), "sleep" (in one chunk of the
\*          inter-cycle sleep), "cleanup", "pause", "backoff", "ended"
\*   left:  chunks of the sleep not yet slept
\*   count: check_count modulo CleanupEvery
\*   stop_file: stop_monitor.txt exists
\*   pause_file: "none" when pause_monitor.txt does not exist, else what it
\*          holds: "30" stands for a string of decimal digits, "soon" for a
\*          string that is not all digits, "sup2" for a string of characters
\*          that str.isdigit() accepts and int() does not, such as the
\*          superscript two
\*   ev:    what the loop's last step did
InitLoop == [pc |-> "top", left |-> 0, count |-> 0, stop_file |-> FALSE,
             pause_file |-> "none", ev |-> "none"]

PauseContents == {"30", "soon", "sup2"}

\* signal_handler.py:97: str.isdigit()
isdigit(d) == d \in {"30", "sup2"}

\* stream_monitor.py:123: int(); ValueError when it is FALSE
ParsesAsInt(d) == d \in {"30", "60"}

\* a control check that looks for the pause file first
check_control_signals_pausing(L) ==
    IF L.pause_file # "none"
    THEN [kind |-> "pause",
          arg |-> IF isdigit(L.pause_file) THEN L.pause_file ELSE "60"]
    ELSE IF L.stop_file THEN [kind |-> "stop", arg |-> "file_signal"]
    ELSE [kind |-> "continue", arg |-> "none"]

\* signal_handler.py:82-104
check_control_signals(L) ==
    IF L.stop_file THEN [kind |-> "stop", arg |-> "file_signal"]
    ELSE IF L.pause_file # "none"
    THEN [kind |-> "pause",
          arg |-> IF isdigit(L.pause_file) THEN L.pause_file ELSE "60"]
    ELSE [kind |-> "continue", arg |-> "none"]

\* stream_monitor.py:98-133, signal_handler.py:193-209: the loop condition,
\* the control files, then the pause (its file removed before the sleep) or
\* the next poll.  int() of a pause duration that does not parse raises
\* ValueError, which the except branch of the loop body (lines 187-195)
\* answers with the backoff, monitoring being True here.
LoopTop ==
    /\ Alive
    /\ loop.pc = "top"
    /\ LET sig == check_control_signals(loop)
       IN  IF ~ctl.monitoring
           THEN /\ loop' = [loop EXCEPT !.pc = "ended", !.ev = "exit"]
                /\ ctl' = ctl
           ELSE IF sig.kind = "stop"
           THEN /\ loop' = [loop EXCEPT !.pc = "ended", !.ev = "break"]
                /\ ctl' = [ctl EXCEPT !.monitoring = FALSE]
           ELSE IF sig.kind = "pause"
           THEN /\ loop' = IF ParsesAsInt(sig.arg)
                           THEN [loop EXCEPT !.pc = "pause", !.ev = "pause",
                                             !.pause_file = "none"]
                           ELSE [loop EXCEPT !.pc = "backoff", !.ev = "bad_pause"]
                /\ ctl' = ctl
           ELSE /\ loop' = [loop EXCEPT !.pc = "poll", !.ev = "poll",
                                        !.count = (loop.count + 1) % CleanupEvery]
                /\ ctl' = ctl
    /\ UNCHANGED <<stabilityVars, checker, rec, frames, last, scope>>

\* stream_monitor.py:133-181,229-240: the poll returns, its results are
\* processed, the sleep begins
PollDone ==
    /\ Alive
    /\ loop.pc = "poll"
    /\ loop' = IF ctl.monitoring
               THEN [loop EXCEPT !.pc = "sleep", !.left = MaxChunks, !.ev = "polled"]
               ELSE [loop EXCEPT !.pc = "ended", !.ev = "exit"]
    /\ UNCHANGED <<stabilityVars, checker, recorderVars, scope>>

\* stream_monitor.py:183-185: where the loop goes when the sleep is over
AfterSleep(count) == IF count = 0 THEN "cleanup" ELSE "top"

\* stream_monitor.py:237-240: a chunk of the sleep ends; the next one
\* begins unless none is left or monitoring is False
SleepChunkDone ==
    /\ Alive
    /\ loop.pc = "sleep"
    /\ loop' = IF loop.left = 1 \/ ~ctl.monitoring
               THEN [loop EXCEPT !.pc = AfterSleep(loop.count), !.left = 0,
                                 !.ev = "woke"]
               ELSE [loop EXCEPT !.left = loop.left - 1, !.ev = "slept"]
    /\ UNCHANGED <<stabilityVars, checker, recorderVars, scope>>

\* stream_monitor.py:242-259: the periodic cleanup ends (its own errors are
\* caught inside)
CleanupDone ==
    /\ Alive
    /\ loop.pc = "cleanup"
    /\ loop' = [loop EXCEPT !.pc = "top", !.ev = "cleaned"]
    /\ UNCHANGED <<stabilityVars, checker, recorderVars, scope>>

\* stream_monitor.py:122-125, signal_handler.py:193-213: the pause ends
PauseDone ==
    /\ Alive
    /\ loop.pc = "pause"
    /\ loop' = [loop EXCEPT !.pc = "top", !.ev = "resumed"]
    /\ UNCHANGED <<stabilityVars, checker, recorderVars, scope>>

\* a loop that an exception ends
AfterError_fatal(monitoring) == "ended"

\* stream_monitor.py:187-195: the except branch of the loop body
AfterError(monitoring) == IF monitoring THEN "backoff" ELSE "ended"

\* stream_monitor.py:99-195: a step of the cycle raises an Exception
CycleError ==
    /\ Alive
    /\ loop.pc \in {"top", "poll", "sleep", "pause"}
    /\ loop.pc = "top" => ctl.monitoring
    /\ loop' = [loop EXCEPT !.pc = AfterError(ctl.monitoring), !.left = 0,
                            !.ev = "error"]
    /\ UNCHANGED <<stabilityVars, checker, recorderVars, scope>>

\* stream_monitor.py:195: the 30 s after an error are over
BackoffDone ==
    /\ Alive
    /\ loop.pc = "backoff"
    /\ loop' = [loop EXCEPT !.pc = "top", !.ev = "retry"]
    /\ UNCHANGED <<stabilityVars, checker, recorderVars, scope>>

\* stream_monitor.py:90: the user creates stop_monitor.txt
StopFile ==
    /\ Alive
    /\ ~loop.stop_file
    /\ loop' = [loop EXCEPT !.stop_file = TRUE, !.ev = "none"]
    /\ UNCHANGED <<stabilityVars, checker, recorderVars, scope>>

\* signal_handler.py:27: the user creates pause_monitor.txt
PauseFile(d) ==
    /\ Alive
    /\ loop.pause_file = "none"
    /\ loop' = [loop EXCEPT !.pause_file = d, !.ev = "none"]
    /\ UNCHANGED <<stabilityVars, checker, recorderVars, scope>>

\* ui/app.py:530-534: POST /monitor/stop
StopUI ==
    /\ Alive
    /\ ctl.monitoring
    /\ ctl' = [ctl EXCEPT !.monitoring = FALSE]
    /\ loop' = [loop EXCEPT !.ev = "none"]
    /\ UNCHANGED <<stabilityVars, checker, rec, frames, last, scope>>

\* ================================================== specifications =======
InitTracker ==
    /\ now = 0
    /\ cfgThreshold \in 1..MaxThreshold
    /\ cfgCooldown \in (0..MaxCooldown) \cup {LongCooldown}
    /\ stability = [u \in Keys |-> NoRecord]
    /\ obs = [user |-> 0, is_live |-> FALSE, current_recording |-> FALSE,
              result |-> FALSE, prev_status |-> "None"]
    /\ startGap = [u \in Users |-> [last |-> NoTime, gap |-> NoTime]]
    /\ checker = InitChecker
    /\ loop = InitLoop

InitRecorder ==
    /\ rec = InitRec
    /\ frames = [c \in FrameIds |-> IdleFrame]
    /\ ctl = InitCtl
    /\ last = Quiet

\* The runs explored.  Each is a family of executions of the program:
\*   Confirming: one entity, its client replaced only after it is gone, up
\*               to MaxConf confirmation tasks alive, no sweep, no shutdown;
\*   Closing:    one entity, one confirmation task, the sweep, the shutdown
\*               and termination signals;
\*   Competing:  the whole roster competing for the recording slots while
\*               the streams stay up (no push event), the sweep and the
\*               shutdown;
\*   Doubling:   one entity, several clients of it alive at one time, push
\*               events and the sweep, no confirmation task, no shutdown.
Confirming == [roster |-> {1}, sessions |-> 1, conf |-> MaxConf,
               events |-> TRUE, sweep |-> FALSE, shutdown |-> FALSE,
               signals |-> FALSE]
Closing == [roster |-> {1}, sessions |-> 1, conf |-> 1,
            events |-> TRUE, sweep |-> TRUE, shutdown |-> TRUE,
            signals |-> TRUE]
Competing == [roster |-> Users, sessions |-> MaxSessions, conf |-> 0,
              events |-> FALSE, sweep |-> TRUE, shutdown |-> TRUE,
              signals |-> FALSE]
Doubling == [roster |-> {1}, sessions |-> MaxSessions, conf |-> 0,
             events |-> TRUE, sweep |-> TRUE, shutdown |-> FALSE,
             signals |-> FALSE]
Scopes == {Confirming, Closing, Competing, Doubling}

Init ==
    /\ InitRecorder
    /\ InitTracker /\ cfgThreshold = 1 /\ cfgCooldown = 0
    /\ scope \in Scopes

Next ==
    \/ \E u \in Users, csv_ok \in BOOLEAN : StartCall(u, csv_ok)
    \/ \E s \in Sessions : StartCommit(s)
    \/ \E s \in Sessions : StartFail(s)
    \/ \E s \in Sessions, video_ok \in BOOLEAN : OnConnect(s, video_ok)
    \/ \E s \in Sessions : OnEvent(s)
    \/ \E s \in Sessions : OnLiveEnd(s)
    \/ \E s \in Sessions : OnDisconnect(s)
    \/ \E c \in FrameIds : StopVideoDone(c)
    \/ \E c \in FrameIds, ok \in BOOLEAN : StopDisconnectDone(c, ok)
    \/ \E c \in FrameIds : StopSleepDone(c)
    \/ \E c \in FrameIds : StopCancelled(c)
    \/ \E k \in ConfTasks : ConfWake(k)
    \/ \E k \in ConfTasks, outs \in [Attempts -> AttemptOutcomes] : ConfPoll(k, outs)
    \/ \E q \in UNION {Orders(S) : S \in SUBSET Users} : SweepBegin(q)
    \/ \E c \in FrameIds : ForceVideoDone(c)
    \/ \E c \in FrameIds, ok \in BOOLEAN : ForceDisconnectDone(c, ok)
    \/ ShutdownBegin
    \/ \E u \in Users : ShutdownStopTask(u)
    \/ ShutdownGathered
    \/ ShutdownTimeout
    \/ ShutdownForceBegin
    \/ \E u \in Users : ShutdownForce(u)
    \/ ShutdownForceTimeout
    \/ ShutdownFinish
    \/ Signal

Spec == Init /\ [][Next]_vars

\* The same runs when every confirmation task that can go on does go on:
\* its delay ends (stream_recorder.py:342) and its re-poll, every attempt of
\* which is bounded by wait_for (stream_checker.py:61), answers or gives up.
Fairness ==
    \A k \in ConfTasks :
        /\ WF_vars(ConfWake(k))
        /\ WF_vars(\E outs \in [Attempts -> AttemptOutcomes] : ConfPoll(k, outs))
SpecFair == Init /\ [][Next]_vars /\ Fairness

\* the tracker alone, fed any samples at any times under any settings
TrackerInit == InitTracker /\ InitRecorder /\ scope = Confirming
TrackerNext == Observe \/ Tick
SpecTracker == TrackerInit /\ [][TrackerNext]_vars

\* stream_monitor.py:137-147 for an entity the poll reports live while the
\* recorder holds no session of it: is_recording is False, whether the last
\* start was rejected for capacity, failed, or was never asked.  The run
\* counter is carried up to MaxRun; the settings keep the threshold below
\* it, so a longer run is decided alike.
PollLive(u) ==
    LET r0 == IF stability[u].present THEN stability[u] ELSE NewRecord(now)
        r1 == IF r0.consecutive_live < MaxRun THEN UpdateCounters(r0, TRUE)
                                              ELSE r0
        act == ShouldAct(r1, TRUE, FALSE, now)
        r2 == MarkAction(r1, act, now)
    IN  /\ u \in scope.roster
        /\ stability' = [stability EXCEPT ![u] = r2]
        /\ obs' = [user |-> u, is_live |-> TRUE, current_recording |-> FALSE,
                   result |-> act, prev_status |-> r0.last_status]
        /\ startGap' = IF act
                       THEN [startGap EXCEPT ![u] =
                               [last |-> now,
                                gap |-> IF startGap[u].last = NoTime
                                        THEN NoTime
                                        ELSE now - startGap[u].last]]
                       ELSE startGap
        /\ UNCHANGED <<now, cfgThreshold, cfgCooldown>>
        /\ UNCHANGED <<checker, loop, recorderVars, scope>>

\* the tracker under a loop that keeps polling while the clock runs: the
\* loop of stream_monitor.py:104-195 polls again after every sleep, pause
\* and error back-off for as long as it is not asked to stop
SteadyNext == (\E u \in Users : PollLive(u)) \/ Observe \/ Tick
SteadyFairness == WF_vars(Tick) /\ \A u \in Users : WF_vars(PollLive(u))
SpecSteady == TrackerInit /\ [][SteadyNext]_vars /\ SteadyFairness

\* the monitor's checker alone, polling any roster with any outcomes
CheckerInit == InitTracker /\ cfgThreshold = 1 /\ cfgCooldown = 0
               /\ InitRecorder /\ scope = Competing
CheckerNext ==
    \/ \E roster \in SUBSET Users : PollBegin(roster)
    \/ \E u \in Users, outcome \in AttemptOutcomes : CheckAttempt(u, outcome)
    \/ \E u \in Users : CheckTimeout(u)
    \/ PollEnd
    \/ ProcessResults
SpecChecker == CheckerInit /\ [][CheckerNext]_vars

\* the monitoring loop alone: its cycles, errors and the three stop channels
LoopInit == InitTracker /\ cfgThreshold = 1 /\ cfgCooldown = 0
            /\ InitRecorder /\ scope = Closing
LoopNext ==
    \/ LoopTop
    \/ PollDone
    \/ SleepChunkDone
    \/ CleanupDone
    \/ PauseDone
    \/ CycleError
    \/ BackoffDone
    \/ StopFile
    \/ \E d \in PauseContents : PauseFile(d)
    \/ StopUI
    \/ Signal
SpecLoop == LoopInit /\ [][LoopNext]_vars

\* ============================================================ claims =====
\* C5: for every tracked entity, consecutive_live and consecutive_offline
\* are never both non-zero: an observation resets the run it breaks.
C5_OneRunAtATime ==
    \A u \in Users :
        ~(stability[u].consecutive_live # 0 /\ stability[u].consecutive_offline # 0)

\* a live sample has just broken an offline run
C5_RunBroken ==
    /\ obs.user \in Users /\ obs.is_live /\ obs.prev_status = "False"
    /\ stability[obs.user].consecutive_live = 1
    /\ stability[obs.user].consecutive_offline = 0

\* C4: two calls that both return a start decision for the same entity are
\* at least min_action_cooldown apart.
C4_StartsApart ==
    \A u \in Users :
        startGap[u].gap # NoTime => startGap[u].gap >= cfgCooldown

\* a second start decision made exactly when the cooldown has run out
C4_SecondStart ==
    \E u \in Users :
        /\ cfgCooldown > 0
        /\ startGap[u].gap = cfgCooldown
        /\ obs.user = u /\ obs.result

\* C1: the active set (reserved slots and committed sessions) never holds
\* more than max_concurrent_recordings entities.
C1_WithinCap == Cardinality(ActiveKeys(rec)) <= MaxConcurrent

\* C2: an entity with a pending disconnect entry always has an entry in the
\* active set.
C2_PendingHasSession ==
    \A u \in Users : rec.pending[u] # 0 => rec.active[u].st # "absent"

\* C3: a stop_recording call for an entity that has no active session
\* returns success.
C3_StopWithoutSessionSucceeds ==
    (last.op \in {"stop", "confirm"} /\ last.val # "none" /\ ~last.had)
        => last.val = "true"

\* C6: a confirmation task whose pending entry a live-end event has removed
\* never re-polls the entity and never stops a recording.
C6_SupersededTaskNeverFires ==
    \A k \in ConfTasks :
        rec.conf[k].superseded => rec.conf[k].pc \notin {"poll", "stop"}

\* C7: the step in which a confirmation's re-poll answers live issues no
\* stop, leaves the active set, every session (recording_active included),
\* the sinks and the capture as they were, and removes the entity's pending
\* entry.
C7_LiveKeepsRecording ==
    [][(last'.op = "confirm" /\ last'.poll = "live")
         => /\ last'.val = "none"
            /\ frames' = frames
            /\ rec'.active = rec.active
            /\ rec'.sess = rec.sess
            /\ rec'.writers = rec.writers
            /\ rec'.video = rec.video
            /\ rec'.pending[last'.user] = 0]_vars

\* a re-poll has answered live for an entity that had its pending entry and
\* whose session is in the active set, recording
C7_StillRecording ==
    /\ last.op = "confirm" /\ last.poll = "live" /\ last.pend
    /\ rec.active[last.user].st = "committed"
    /\ rec.sess[rec.active[last.user].s].is_recording
    /\ rec.pending[last.user] = 0

\* C8: a stop_recording("disconnect_confirmed") made for an entity that had
\* its pending entry and its session ends by returning True, with the sinks
\* closed and the session out of the active set.
C8_ConfirmedStopCompletes ==
    (/\ last.why = "disconnect_confirmed" /\ last.pend /\ last.had
     /\ last.val \in {"true", "false", "cancelled", "raise"})
        => /\ last.val = "true"
           /\ ~rec.writers[last.user]
           /\ rec.active[last.user].st = "absent"

\* C9: when every attempt of a confirmation's re-poll has failed, a stop is
\* issued, and a session the entity has in the active set is no longer
\* recording and has a stop in flight.
C9_FailedPollStops ==
    (last.op = "confirm" /\ last.poll = "failed")
        => /\ last.val # "none"
           /\ rec.active[last.user].st = "committed"
                => /\ ~rec.sess[rec.active[last.user].s].is_recording
                   /\ \E c \in FrameIds : /\ frames[c].pc # "idle"
                                           /\ frames[c].user = last.user

\* a failed re-poll for an entity that had a session, which is gone
C9_StoppedAfterFailedPoll ==
    /\ last.op = "confirm" /\ last.poll = "failed" /\ last.had
    /\ last.val = "true"
    /\ rec.active[last.user].st = "absent"

\* C10: once the shutdown has completed, the active set is empty.
C10_EmptyAfterShutdown == ctl.phase = "done" => ActiveKeys(rec) = {}

\* C11: a shutdown whose wait for the graceful stops ended within the
\* timeout invokes no force-stop, however many stop tasks it created.
C11_NoForceWithoutTimeout ==
    (ctl.phase # "running" /\ ctl.cut = {})
        => ctl.forced = {} /\ frames[<<"SF", 0>>].pc = "idle"

\* a shutdown of two active sessions that is over, both stopped in time
C11_TwoStoppedInTime ==
    /\ ctl.phase = "done" /\ ctl.cut = {} /\ Cardinality(ctl.keys) = 2
    /\ ActiveKeys(rec) = {}
    /\ \A u \in ctl.keys : ~rec.writers[u]

\* C12: when the shutdown's wait timed out, every entity whose stop task
\* had not ended is force-stopped, and once the shutdown has completed its
\* capture is gone and its sinks are closed.
C12_TimeoutForcesRest ==
    ctl.phase = "done"
        => \A u \in ctl.cut : /\ u \in ctl.forced
                              /\ rec.video[u] = 0
                              /\ ~rec.writers[u]

\* C13: a start_recording call made for an entity outside the active set
\* while the active set holds max_concurrent_recordings entries returns
\* False for capacity, and nothing else changes: no sink, no client, no
\* entry in the active set, nothing left behind that would start it later.
C13_FullMeansRefused ==
    [][\A u \in Users :
         (/\ last'.op = "start" /\ last'.user = u
          /\ last'.why \notin {"committed", "connect"}
          /\ rec.active[u].st = "absent"
          /\ Cardinality(ActiveKeys(rec)) >= MaxConcurrent)
            => /\ last'.val = "false" /\ last'.why = "capacity_exceeded"
               /\ rec' = rec /\ frames' = frames /\ ctl' = ctl]_vars

\* a start refused for capacity while another entity holds the only slot
C13_RefusedAtCap ==
    /\ last.op = "start" /\ last.why = "capacity_exceeded"
    /\ rec.active[last.user].st = "absent"
    /\ ~rec.writers[last.user]
    /\ Cardinality(ActiveKeys(rec)) = MaxConcurrent
    /\ \A s \in Sessions : rec.sess[s].user # last.user

\* C14: a track_stream_stability call returns True exactly when the sample
\* is live, the entity is not being recorded, consecutive_live (this sample
\* counted) has reached stability_threshold and min_action_cooldown has
\* passed since last_action_time; last_action_time becomes now exactly when
\* it returns True and keeps its value otherwise.
C14_DecisionExact ==
    [][stability' # stability =>
         LET u == obs'.user
             before == IF stability[u].present THEN stability[u].last_action_time
                       ELSE now - Backdate
         IN  /\ obs'.result = (/\ obs'.is_live
                               /\ ~obs'.current_recording
                               /\ stability'[u].consecutive_live >= cfgThreshold
                               /\ now - before >= cfgCooldown)
             /\ stability'[u].last_action_time =
                    IF obs'.result THEN now ELSE before]_vars

\* a start decision made on the sample that completes the longest run asked
\* for, under a cooldown
C14_DecidedAtThreshold ==
    /\ obs.user \in Users /\ obs.result
    /\ cfgThreshold = MaxThreshold /\ cfgCooldown = MaxCooldown
    /\ stability[obs.user].consecutive_live = cfgThreshold
    /\ stability[obs.user].last_action_time = now

\* C15: the task registered in an entity's pending entry is never a
\* cancelled one: it has not ended and no cancellation waits for it.  The
\* step that cancels a confirmation task removes its entry.
C15_NoCancelledTaskRegistered ==
    \A u \in Users :
        rec.pending[u] # 0
            => /\ rec.conf[rec.pending[u]].pc # "unused"
               /\ ~rec.conf[rec.pending[u]].must_cancel
               /\ ~frames[<<"CF", rec.pending[u]>>].cancel

\* a confirmation task cancelled by stop_recording, not yet ended, whose
\* entity still has its session and has no pending entry
C15_CancelledAndUnregistered ==
    \E k \in ConfTasks :
        /\ rec.conf[k].pc = "stop" /\ frames[<<"CF", k>>].cancel
        /\ rec.active[rec.conf[k].user].st = "committed"
        /\ rec.pending[rec.conf[k].user] = 0

\* C16: while a start_recording of an entity is between its reservation and
\* its commit or rollback, no stop_recording or force_stop_recording of that
\* entity is suspended half-way, and none has just run on its entry.
C16_StartStopExclusive ==
    \A u \in Users :
        (\E s \in Sessions : rec.sess[s].start = "connecting" /\ rec.sess[s].user = u)
            => /\ \A c \in FrameIds : ~(Suspended(frames[c]) /\ frames[c].user = u)
               /\ ~(/\ last.op \in {"stop", "force", "confirm"}
                     /\ last.user = u /\ last.had
                     /\ last.val \in {"true", "false", "raise", "cancelled"})

\* C17: a stop_recording call entered for an entity of the active set ends,
\* however it ends (True, False, an exception, a cancellation), with the
\* entity out of the active set.
C17_StopFreesSlot ==
    (/\ last.op \in {"stop", "confirm"} /\ last.had
     /\ last.val \in {"true", "false", "raise", "cancelled"})
        => rec.active[last.user].st = "absent"

\* C18: when a stop (stop_recording or force_stop_recording) has ended and
\* the entity is out of the active set, the entity's sinks are closed.
C18_StopClosesSinks ==
    (/\ last.op \in {"stop", "confirm", "force"} /\ last.had
     /\ last.val \in {"true", "false", "raise", "cancelled"}
     /\ rec.active[last.user].st = "absent")
        => ~rec.writers[last.user]

\* C19: when a poll has ended, its all-failed flag is True if every entity
\* of the roster used up its attempts without an answer, and False if at
\* least one entity's check answered.
C19_FlagTellsAllFailed ==
    checker.phase = "done"
        => /\ (\A u \in checker.roster : checker.how[u] = "failed")
                => checker.flag
           /\ (\E u \in checker.roster : checker.how[u] \in {"live", "offline"})
                => ~checker.flag

\* C20: the first termination signal does not end the process: it notes
\* that a shutdown was asked for and tells the monitor loop to stop, and
\* touches no recording.  A signal that arrives after it ends the process
\* at once: nothing is cleaned up by the handler and nothing runs afterwards.
C20_SecondSignalExits ==
    [][/\ ~ctl.exited
       /\ last'.op = "signal"
            => /\ rec' = rec /\ frames' = frames
               /\ ctl'.phase = ctl.phase
               /\ IF ctl.shutdown_initiated
                  THEN ctl'.exited
                  ELSE /\ ~ctl'.exited
                       /\ ctl'.shutdown_initiated
                       /\ ~ctl'.monitoring]_vars

\* the process left in the middle of a shutdown, a sink still open
C20_ExitedWhileDraining ==
    /\ ctl.exited /\ ctl.shutdown_initiated
    /\ ctl.phase = "draining"
    /\ \E u \in Users : rec.writers[u] /\ rec.active[u].st = "committed"

\* C21: once a stop has been asked for (monitoring set False by a signal
\* or the UI, or the stop file created), the inter-cycle sleep does not go
\* on past the chunk it is in, and no poll is started.
C21_StopEndsSleep ==
    [][(~ctl.monitoring \/ loop.stop_file)
         => /\ (loop.pc = "sleep" /\ loop'.pc = "sleep") => loop'.left = loop.left
            /\ loop'.pc = "poll" => loop.pc = "poll"]_vars

\* C22: an exception raised in a step of a cycle sends the loop into its
\* backoff sleep, after which the next iteration begins; the exception ends
\* the loop only when monitoring is already False, and the loop never ends
\* while monitoring is True.
C22_ErrorNeverEndsLoop ==
    [][/\ (loop' # loop /\ loop'.ev = "error")
            => loop'.pc = IF ctl.monitoring THEN "backoff" ELSE "ended"
       /\ (loop.pc = "backoff" /\ loop'.pc # "backoff") => loop'.pc = "top"
       /\ (loop.pc # "ended" /\ loop'.pc = "ended") => ~ctl'.monitoring]_vars

\* the loop is back at its top after the backoff that followed an error in
\* a later cycle, still monitoring
C22_BackAfterBackoff ==
    /\ loop.pc = "top" /\ loop.ev = "retry"
    /\ ctl.monitoring /\ ~loop.stop_file
    /\ loop.count > 1

\* C23: of the start_recording calls in flight for one entity, only one has
\* reserved the slot and gone on to open the sinks and connect: no two
\* clients are connecting for the same entity.
C23_OneStartInFlight ==
    \A s1, s2 \in Sessions :
        (/\ rec.sess[s1].start = "connecting" /\ rec.sess[s2].start = "connecting"
         /\ rec.sess[s1].user = rec.sess[s2].user)
            => s1 = s2

\* C24: a start_recording call that fails after its reservation (the sinks
\* cannot be opened, or client.start() raises) returns False with the entity
\* out of the active set and the entity's sinks closed.
C24_FailedStartRollsBack ==
    (last.op = "start" /\ last.val = "false" /\ last.why \in {"csv", "connect"})
        => /\ rec.active[last.user].st = "absent"
           /\ ~rec.writers[last.user]

\* a start whose connection failed after it had reserved and opened sinks
C24_ConnectFailed ==
    /\ last.op = "start" /\ last.val = "false" /\ last.why = "connect" /\ last.had
    /\ rec.active[last.user].st = "absent"
    /\ ~rec.writers[last.user]

\* C25: a session whose teardown is under way (a stop_recording or
\* force_stop_recording of it is past its first step) has is_recording
\* False, and no event handler appends a row to the sinks of an entity whose
\* session in the active set has is_recording False, nor counts an event of
\* a session whose flag is False.
C25_FlagDownBeforeTeardown ==
    /\ \A c \in FrameIds :
          (Suspended(frames[c]) /\ frames[c].s # 0)
              => ~rec.sess[frames[c].s].is_recording
    /\ (last.op = "event" /\ ~last.had) => last.val = "ignored"
    /\ (/\ last.op = "event" /\ last.val = "row"
        /\ rec.active[last.user].st = "committed")
            => rec.sess[rec.active[last.user].s].is_recording

\* C26: every step that begins a stop of an entity's session, be it a
\* stop_recording that reaches its first await or a force_stop_recording of
\* an entity of the sweep's or the shutdown's list that is in the active
\* set, leaves the entity without a PendingDisconnect entry.
C26_StopCancelsConfirmation ==
    [][/\ \A c \in FrameIds :
            (/\ frames[c].pc = "idle"
             /\ frames'[c].pc \in {"video", "disc", "sleep", "fvideo", "fdisc"})
                => rec'.pending[frames'[c].user] = 0
       /\ \A u \in ctl.todo \ ctl'.todo :
            rec.active[u].st # "absent" => rec'.pending[u] = 0]_vars

\* C27: an entity that the sweep force-stops in a step (its
\* force_stop_recording suspends in the step, or has returned by the end of
\* it) had, before the step, a session in the active set whose client was
\* not connected and whose is_recording was False, and had no
\* start_recording in flight.
C27_SweepOnlyStale ==
    [][\A u \in Users :
          (\/ /\ Suspended(frames'[<<"SW", 0>>]) /\ frames'[<<"SW", 0>>].user = u
              /\ ~(Suspended(frames[<<"SW", 0>>]) /\ frames[<<"SW", 0>>].user = u)
           \/ /\ last'.op = "force" /\ last'.why = "stale" /\ last'.user = u
              /\ frames[<<"SW", 0>>].user # u)
          => /\ rec.active[u].st = "committed"
             /\ rec.sess[rec.active[u].s].client # "up"
             /\ ~rec.sess[rec.active[u].s].is_recording
             /\ ~\E s \in Sessions :
                    rec.sess[s].user = u /\ rec.sess[s].start = "connecting"]_vars

\* stream_recorder.py:57-60,100,147,186-189,198,218-220: where an entity is
\* in its lifecycle, read from the active set and the session's flag
Lifecycle(R, u) ==
    IF R.active[u].st = "absent" THEN "IDLE"
    ELSE IF R.active[u].st = "reserved" THEN "STARTING"
    ELSE IF R.sess[R.active[u].s].is_recording THEN "RECORDING"
    ELSE "STOPPING"

\* C28: every step moves an entity along IDLE -> STARTING -> RECORDING ->
\* STOPPING -> IDLE or STARTING -> IDLE (RECORDING -> IDLE when a stop runs
\* to its end within the step) or leaves it where it is, and a session is
\* put into the active set only over a reservation.
C28_LifecycleOrder ==
    [][\A u \in Users :
          /\ \/ Lifecycle(rec', u) = Lifecycle(rec, u)
             \/ <<Lifecycle(rec, u), Lifecycle(rec', u)>> \in
                   {<<"IDLE", "STARTING">>, <<"STARTING", "RECORDING">>,
                    <<"RECORDING", "STOPPING">>, <<"STOPPING", "IDLE">>,
                    <<"STARTING", "IDLE">>, <<"RECORDING", "IDLE">>}
          /\ (rec'.active[u].st = "committed" /\ rec'.active[u] # rec.active[u])
                => rec.active[u].st = "reserved"]_vars

\* C29: a track_stream_stability call on an offline sample returns False,
\* and the coordinator's handling of a poll result (the call and what
\* follows it in the loop) takes no session out of the active set, clears
\* no flag and starts no stop.
C29_OfflineNeverStops ==
    [][stability' # stability =>
         /\ ~obs'.is_live => ~obs'.result
         /\ rec' = rec /\ frames' = frames]_vars

\* an offline run as long as the threshold seen on a recorded entity
C29_StableOfflineSeen ==
    /\ obs.user \in Users /\ ~obs.is_live /\ obs.current_recording
    /\ stability[obs.user].consecutive_offline >= cfgThreshold
    /\ cfgThreshold = MaxThreshold
    /\ ~obs.result

\* C30: whatever min_action_cooldown is configured, a call for an entity
\* that has had no start decision yet returns True as soon as the sample is
\* live, the entity is not recorded and consecutive_live has reached the
\* threshold: the cooldown does not hold the first decision back.
C30_FirstStartNotCooled ==
    [][stability' # stability =>
         LET u == obs'.user
         IN  startGap[u].last = NoTime
                => obs'.result = (/\ obs'.is_live
                                  /\ ~obs'.current_recording
                                  /\ stability'[u].consecutive_live >= cfgThreshold)]_vars

\* C31: in a poll no entity gets more than max_retries + 1 attempts; an
\* attempt that answers ends the entity's check with that answer; an attempt
\* is followed by another one only when it failed; the check ends as failed
\* only on the failure of the last attempt; and the poll reports an entity
\* live only when an attempt answered live, so a failed or timed-out check
\* is reported offline.
C31_RetriesThenOffline ==
    [][\A u \in Users :
          /\ checker'.task[u].attempt <= MaxRetries + 1
          /\ (checker.task[u].pc = "attempt" /\ checker'.tried[u] # checker.tried[u]
                  /\ checker'.tried[u] \in {"live", "offline"})
                => /\ checker'.task[u].pc = "done"
                   /\ checker'.task[u].attempt = checker.task[u].attempt
                   /\ checker'.how[u] = checker'.tried[u]
          /\ (checker.task[u].pc = "attempt" /\ checker'.task[u].pc = "attempt"
                  /\ checker'.task[u] # checker.task[u])
                => /\ checker'.tried[u] \notin {"live", "offline"}
                   /\ checker'.task[u].attempt = checker.task[u].attempt + 1
          /\ (checker.how[u] = "none" /\ checker'.how[u] = "failed")
                => /\ checker.task[u].attempt = MaxRetries + 1
                   /\ checker'.tried[u] \notin {"live", "offline"}
          /\ (checker.phase = "polling" /\ checker'.phase = "done"
                  /\ u \in checker.roster)
                => checker'.status[u] =
                       (checker.tried[u] = "live" /\ checker.how[u] = "live")]_vars

\* a poll has ended in which an entity used up all its attempts and is
\* reported offline
C31_GaveUpOffline ==
    /\ checker.phase = "done"
    /\ \E u \in checker.roster :
          /\ checker.how[u] = "failed" /\ checker.tried[u] \in {"timeout", "error"}
          /\ ~checker.status[u]

\* C32: a pending entry always names a confirmation task of its entity
\* that has not ended, and every pending entry is removed in the end (unless
\* the process is ended first by a second signal).
C32_PendingRemoved ==
    /\ [](\A u \in Users :
            rec.pending[u] # 0
                => /\ rec.conf[rec.pending[u]].pc # "unused"
                   /\ rec.conf[rec.pending[u]].user = u)
    /\ \A u \in Users :
          (rec.pending[u] # 0) ~> (rec.pending[u] = 0 \/ ctl.exited)

\* a confirmation has just ended in a stop of a session that was already
\* gone, and the entity's entry is gone with it
C32_EndedAndRemoved ==
    /\ last.op = "confirm" /\ last.pend /\ ~last.had
    /\ last.val = "false"
    /\ rec.pending[last.user] = 0

\* C33: a disconnect event for an entity without a pending entry registers
\* one new confirmation task, in its delay, for that entity and changes no
\* other entry or task; a disconnect event for an entity that has a pending
\* entry changes neither the entries nor the tasks.
C33_OneConfirmationPerEntity ==
    [][last'.op = "disconnect" =>
         LET u == last'.user
             k == rec'.pending[u]
         IN  IF rec.pending[u] # 0
             THEN rec'.pending = rec.pending /\ rec'.conf = rec.conf
             ELSE /\ k # 0
                  /\ rec.conf[k].pc = "unused"
                  /\ rec'.conf[k].pc = "sleep" /\ rec'.conf[k].user = u
                  /\ \A j \in ConfTasks \ {k} : rec'.conf[j] = rec.conf[j]
                  /\ \A v \in Users \ {u} : rec'.pending[v] = rec.pending[v]]_vars

\* a disconnect event has just found its entity's entry in place
C33_SecondDisconnect ==
    /\ last.op = "disconnect" /\ last.pend
    /\ rec.pending[last.user] # 0
    /\ rec.conf[rec.pending[last.user]].pc = "sleep"

\* C34: an iteration that begins with a pause request pending and no stop
\* request (monitoring True, no stop file) goes, unless an unrelated step of
\* it raises, into the pause with the request consumed, without a poll; and
\* the pause is left for the top of the loop only.
C34_PauseSkipsPoll ==
    [][/\ (/\ loop.pc = "top" /\ ctl.monitoring /\ ~loop.stop_file
           /\ loop.pause_file # "none"
           /\ loop'.pc # "top" /\ loop'.ev # "error")
            => loop'.pc = "pause" /\ loop'.pause_file = "none"
       /\ (loop.pc = "pause" /\ loop'.pc # "pause" /\ loop'.ev # "error")
            => loop'.pc = "top"]_vars

\* C35: the keys the monitor has passed to the tracker after a poll, and
\* those it has created a start for, are entities of the roster polled, and
\* only entities have a stability record.
C35_OnlyPolledEntities ==
    /\ checker.seen \subseteq checker.roster
    /\ checker.acted \subseteq checker.roster
    /\ \A key \in Keys : stability[key].present => key \in Users

C37_TaskActsOnOwnEntry ==
    [][\A k \in ConfTasks :
          LET u == rec.conf[k].user
          IN  /\ (rec.conf[k].pc = "sleep" /\ rec'.conf[k].pc = "poll")
                    => rec.pending[u] = k
              /\ (/\ rec.conf[k].pc = "sleep" /\ rec'.conf[k].pc = "unused"
                  /\ rec.pending[u] \notin {0, k})
                    => rec'.pending[u] = rec.pending[u]]_vars

\* C38: an entity whose media capture is running has a session in the
\* active set.
C38_CaptureHasSession ==
    \A u \in Users :
        (rec.video[u] # 0 /\ rec.sess[rec.video[u]].capture)
            => rec.active[u].st = "committed"

\* C39: under fair scheduling an entity that every poll reports live and
\* that has no session keeps being given start decisions.  A live poll of
\* an entity without a session whose run has reached the threshold and
\* whose cooldown window has run out returns True; and whenever such an
\* entity is waiting for a decision in a window that ends within the run's
\* clock, a start decision for it follows, unless a poll reports it
\* offline or finds it recorded.
C39_StartDecisionsKeepComing ==
    /\ [][\A u \in Users :
             (/\ stability'[u] # stability[u]
              /\ obs'.is_live /\ ~obs'.current_recording
              /\ stability'[u].consecutive_live >= cfgThreshold
              /\ stability[u].present
              /\ now - stability[u].last_action_time >= cfgCooldown)
                 => obs'.result]_vars
    /\ \A u \in Users :
           (/\ stability[u].present
            /\ stability[u].last_status = "True"
            /\ stability[u].consecutive_live >= cfgThreshold
            /\ stability[u].last_action_time + cfgCooldown <= MaxTime
            /\ ~(obs.user = u /\ obs.result))
               ~> (obs.user = u
                   /\ (obs.result \/ ~obs.is_live \/ obs.current_recording))

\* a second start decision for an entity that stayed live without a session,
\* a whole cooldown window after the first
C39_DecidedAgain ==
    /\ cfgCooldown > 0
    /\ obs.user = 1 /\ obs.result
    /\ startGap[1].gap # NoTime /\ startGap[1].gap >= cfgCooldown
    /\ stability[1].consecutive_live > cfgThreshold

\* C40: an iteration that begins with a stop request (the stop file, or
\* monitoring already False) and a pause request both pending ends the
\* loop, unless an unrelated step of it raises: it does not pause, does
\* not poll, and leaves the pause request where it is.
C40_StopBeatsPause ==
    [][(/\ loop.pc = "top"
        /\ (loop.stop_file \/ ~ctl.monitoring)
        /\ loop.pause_file # "none"
        /\ loop'.pc # "top" /\ loop'.ev # "error")
          => /\ loop'.pc = "ended"
             /\ loop'.pause_file = loop.pause_file
             /\ loop'.count = loop.count]_vars

\* the loop ended on the stop file with a pause request still pending
C40_EndedWithPausePending ==
    /\ loop.pc = "ended" /\ loop.ev = "break"
    /\ loop.stop_file /\ loop.pause_file # "none"

====
